---- MODULE Spec2Model ----
(***************************************************************************)
(* Model of ocitools' bundle validation (validate.go): the presence walker *)
(* checkMandatory, the semantic checks and the driver bundleValidate.      *)
(* Strings are TLA+ strings read character by character; a fatal log line  *)
(* (logrus.Fatalf) ends the process, a warning (logrus.Warnf) is recorded. *)
(***************************************************************************)
EXTENDS Integers, Sequences, FiniteSets, TLC

VARIABLES
    spec,       \* the rspec.Spec handed to bundleValidate
    obj,        \* the reflect view walked by checkMandatory
    hostCheck,  \* the --host-specific flag
    fs,         \* the filesystem state the probes read
    order,      \* the order in which this run's map iterations visit keys
    pc,         \* the position of the run in bundleValidate
    started,    \* the checks started by this run, in order
    diag,       \* the fatal diagnostics of this run
    warns,      \* the advisories of this run
    ret,        \* what a direct call of checkMandatory returned
    prev        \* the outcome, filesystem and map order of the run before a re-run

vars == <<spec, obj, hostCheck, fs, order, pc, started, diag, warns, ret, prev>>

-----------------------------------------------------------------------------
(* Bounds of the model.                                                    *)

DevRange == 1
MaxNamespaces == 2
MaxEnvLen == 3
MaxElems == 2

-----------------------------------------------------------------------------
(* Strings.                                                                *)

Char(s, i) == SubSeq(s, i, i)

Range(s) == {s[i] : i \in DOMAIN s}

Min(S) == CHOOSE m \in S : \A n \in S : m <= n

\* the sequences of at most n elements of S
SeqsUpTo(S, n) == UNION {[1..k -> S] : k \in 0..n}

\* strings.HasPrefix
HasPrefix(s, p) == Len(s) >= Len(p) /\ SubSeq(s, 1, Len(p)) = p

\* strings.Contains for a one-character separator
ContainsChar(s, c) == \E i \in 1..Len(s) : Char(s, i) = c

\* strings.Split(s, c)[0]: the text before the first c (all of s without c)
FirstItem(s, c) ==
    IF ContainsChar(s, c)
    THEN SubSeq(s, 1, Min({i \in 1..Len(s) : Char(s, i) = c}) - 1)
    ELSE s

\* len(strings.Split(s, c))
SplitCount(s, c) == 1 + Cardinality({i \in 1..Len(s) : Char(s, i) = c})

\* the k-th item of strings.Split(s, c), k >= 1
RECURSIVE SplitItem(_, _, _)
SplitItem(s, c, k) ==
    IF k = 1 THEN FirstItem(s, c)
    ELSE SplitItem(SubSeq(s, Len(FirstItem(s, c)) + 2, Len(s)), c, k - 1)

Letters == {"a", "b", "c", "d", "e", "f", "g", "h", "i", "j", "k", "l", "m", "n",
            "o", "p", "q", "r", "s", "t", "u", "v", "w", "x", "y", "z",
            "A", "B", "C", "D", "E", "F", "G", "H", "I", "J", "K", "L", "M", "N",
            "O", "P", "Q", "R", "S", "T", "U", "V", "W", "X", "Y", "Z"}
Digits == {"0", "1", "2", "3", "4", "5", "6", "7", "8", "9"}
Spaces == {" ", "\t"}

\* unicode.IsLetter, unicode.IsDigit, unicode.IsSpace on the model's alphabet
IsLetter(ch) == ch \in Letters
IsDigit(ch) == ch \in Digits
IsSpace(ch) == ch \in Spaces

\* strings.TrimSpace
RECURSIVE TrimLeft(_)
TrimLeft(s) ==
    IF Len(s) > 0 /\ IsSpace(Char(s, 1)) THEN TrimLeft(SubSeq(s, 2, Len(s))) ELSE s

RECURSIVE TrimRight(_)
TrimRight(s) ==
    IF Len(s) > 0 /\ IsSpace(Char(s, Len(s)))
    THEN TrimRight(SubSeq(s, 1, Len(s) - 1)) ELSE s

TrimSpace(s) == TrimRight(TrimLeft(s))

\* path.IsAbs, filepath.IsAbs
IsAbs(p) == Len(p) > 0 /\ Char(p, 1) = "/"

-----------------------------------------------------------------------------
(* The validators of single values.                                        *)

envValid(env) ==
    /\ SplitCount(env, "=") >= 2
    /\ LET key == TrimSpace(FirstItem(env, "="))
       IN  \A i \in 1..Len(key) :
               IsDigit(Char(key, i)) \/ IsLetter(Char(key, i)) \/ Char(key, i) = "_"

\* the warning envValid logs: the first character of the trimmed key is a digit
envWarns(env) ==
    LET key == TrimSpace(FirstItem(env, "="))
    IN  IF SplitCount(env, "=") >= 2 /\ Len(key) > 0 /\ IsDigit(Char(key, 1))
        THEN << "Env " \o env \o ": variable name beginning with digit is not recommended." >>
        ELSE << >>

DefaultCaps == {"CAP_CHOWN", "CAP_KILL"}

capValid(capability) == capability \in DefaultCaps

defaultRlimits == {"RLIMIT_CPU", "RLIMIT_FSIZE", "RLIMIT_DATA", "RLIMIT_STACK",
                   "RLIMIT_CORE", "RLIMIT_RSS", "RLIMIT_NPROC", "RLIMIT_NOFILE",
                   "RLIMIT_MEMLOCK", "RLIMIT_AS", "RLIMIT_LOCKS",
                   "RLIMIT_SIGPENDING", "RLIMIT_MSGQUEUE", "RLIMIT_NICE",
                   "RLIMIT_RTPRIO", "RLIMIT_RTTIME"}

rlimitValid(rlimit) == rlimit \in defaultRlimits

namespaceValid(ns) ==
    ns.Type \in {"pid", "network", "mount", "ipc", "uts", "user", "cgroup"}

deviceValid(d) ==
    CASE d.Type = "b" -> TRUE
      [] d.Type = "c" -> TRUE
      [] d.Type = "u" -> ~(d.Major <= 0) /\ ~(d.Minor <= 0)
      [] d.Type = "p" -> ~(d.Major > 0 \/ d.Minor > 0)
      [] OTHER -> FALSE

seccompActionValid(secc) ==
    secc \in {"", "SCMP_ACT_KILL", "SCMP_ACT_TRAP", "SCMP_ACT_ERRNO",
              "SCMP_ACT_TRACE", "SCMP_ACT_ALLOW"}

SeccompOps == {"SCMP_CMP_NE", "SCMP_CMP_LT", "SCMP_CMP_LE", "SCMP_CMP_EQ",
               "SCMP_CMP_GE", "SCMP_CMP_GT", "SCMP_CMP_MASKED_EQ"}

syscallValid(s) ==
    /\ seccompActionValid(s.Action)
    /\ \A index \in 1..Len(s.Args) : s.Args[index].Op \in SeccompOps

SeccompArchs == {"SCMP_ARCH_X86", "SCMP_ARCH_X86_64", "SCMP_ARCH_X32",
                 "SCMP_ARCH_ARM", "SCMP_ARCH_AARCH64", "SCMP_ARCH_MIPS",
                 "SCMP_ARCH_MIPS64", "SCMP_ARCH_MIPS64N32", "SCMP_ARCH_MIPSEL",
                 "SCMP_ARCH_MIPSEL64", "SCMP_ARCH_MIPSEL64N32", "SCMP_ARCH_PPC",
                 "SCMP_ARCH_PPC64", "SCMP_ARCH_PPC64LE", "SCMP_ARCH_S390",
                 "SCMP_ARCH_S390X"}

-----------------------------------------------------------------------------
(* The presence walker.  A reflect value is a record with a kind:          *)
(*   Struct: name, fields (each a field name, its omitempty tag, a value)  *)
(*   Ptr:    elem ("Struct" or "Other"), nil, v (the pointee, a Struct)    *)
(*   String: len;  Slice: nil, elems;  Map: nil, vals (key -> value)       *)
(*   Int:    numbers and booleans                                          *)
(* ord is the order in which this run's MapKeys calls return the keys.     *)

None == [kind |-> "None"]

isStruct(v) == v.kind = "Struct"

isStructPtr(v) == v.kind = "Ptr" /\ v.elem = "Struct"

\* fmt.Sprintf("'%s.%s' should not be empty.", parent, name)
UnitMsg(parent, name) == "'" \o parent \o "." \o name \o "' should not be empty."

\* fmt.Sprintf("'%s.%s' should not be empty", parent, name)
PtrMsg(parent, name) == "'" \o parent \o "." \o name \o "' should not be empty"

Okay == [msgs |-> << >>, valid |-> TRUE]

hasOmitemptyNever(tagField) == FALSE

\* strings.Contains(tagField.Tag.Get("json"), "omitempty")
hasOmitempty(tagField) == tagField.omitempty

\* if ms, ok := ...; !ok { msgs = append(msgs, ms...); valid = false }
Append2(acc, r) ==
    IF r.valid THEN acc ELSE [msgs |-> acc.msgs \o r.msgs, valid |-> FALSE]

\* the keys of a map in the order MapKeys returned them
KeysInOrder(vals, ord) == SelectSeq(ord, LAMBDA k : k \in DOMAIN vals)

RECURSIVE checkMandatory(_, _)
RECURSIVE checkMandatoryUnit(_, _, _, _)
RECURSIVE WalkFields(_, _, _, _)
RECURSIVE WalkElems(_, _, _, _)
RECURSIVE WalkFieldsFirstOnly(_, _, _, _)

\* the element loops of checkMandatoryUnit, from element i on
WalkElems(elems, i, ord, acc) ==
    IF i > Len(elems) THEN acc
    ELSE WalkElems(elems, i + 1, ord, Append2(acc, checkMandatory(elems[i], ord)))

checkMandatoryUnit(field, tagField, parent, ord) ==
    LET mandatory == ~hasOmitempty(tagField)
        empty == [msgs |-> << UnitMsg(parent, tagField.name) >>, valid |-> FALSE]
    IN  CASE field.kind = "Ptr" ->
               IF mandatory /\ field.nil THEN empty ELSE Okay
          [] field.kind = "String" ->
               IF mandatory /\ field.len = 0 THEN empty ELSE Okay
          [] field.kind = "Slice" ->
               IF mandatory /\ (field.nil \/ Len(field.elems) = 0) THEN empty
               ELSE WalkElems(field.elems, 1, ord, Okay)
          [] field.kind = "Map" ->
               IF mandatory /\ (field.nil \/ DOMAIN field.vals = {}) THEN empty
               ELSE LET keys == KeysInOrder(field.vals, ord)
                    IN  WalkElems([index \in 1..Len(keys) |-> field.vals[keys[index]]],
                                  1, ord, Okay)
          [] OTHER -> Okay

\* one iteration of the field loop of checkMandatory
FieldStep(st, i, ord) ==
    LET f == st.fields[i]
    IN  IF isStructPtr(f.v) /\ f.v.nil
        THEN IF ~hasOmitempty(f)
             THEN [msgs |-> << PtrMsg(st.name, f.name) >>, valid |-> FALSE]
             ELSE Okay
        ELSE IF isStruct(f.v) \/ isStructPtr(f.v)
             THEN checkMandatory(f.v, ord)
             ELSE checkMandatoryUnit(f.v, f, st.name, ord)

\* a walk that returns at the first violation
WalkFieldsFirstOnly(st, i, ord, acc) ==
    IF i > Len(st.fields) \/ ~acc.valid THEN acc
    ELSE WalkFieldsFirstOnly(st, i + 1, ord, Append2(acc, FieldStep(st, i, ord)))

\* the field loop of checkMandatory, from field i on
WalkFields(st, i, ord, acc) ==
    IF i > Len(st.fields) THEN acc
    ELSE WalkFields(st, i + 1, ord, Append2(acc, FieldStep(st, i, ord)))

checkMandatory(o, ord) ==
    IF isStructPtr(o) THEN WalkFields(o.v, 1, ord, Okay)
    ELSE IF ~isStruct(o) THEN Okay
    ELSE WalkFields(o, 1, ord, Okay)


-----------------------------------------------------------------------------
(* The semantic checks.  Each returns ok, the fatal message when not ok,   *)
(* and the warnings logged before it returned or exited.                   *)

Pass(w) == [ok |-> TRUE, msg |-> "", warns |-> w]

Fail(m, w) == [ok |-> FALSE, msg |-> m, warns |-> w]

\* rspec.Version, the one version validate handles
RspecVersion == "1.0.0"

IsNumeric(s) == Len(s) > 0 /\ \A i \in 1..Len(s) : IsDigit(Char(s, i))

\* semver.Parse(version) returns no error: major.minor.patch, each numeric
\* without a leading zero
SemverParses(version) ==
    /\ SplitCount(version, ".") = 3
    /\ \A k \in 1..3 :
          LET part == SplitItem(version, ".", k)
          IN  IsNumeric(part) /\ (Len(part) > 1 => Char(part, 1) # "0")

checkSemVer(version) ==
    IF ~SemverParses(version)
    THEN Fail("\"" \o version \o "\" is not valid SemVer", << >>)
    ELSE IF version # RspecVersion
    THEN Fail("internal error: validate currently only handles version "
              \o RspecVersion \o ", but the supplied configuration targets "
              \o version, << >>)
    ELSE Pass(<< >>)

validCombins ==
    [darwin |-> {"386", "amd64", "arm", "arm64"},
     dragonfly |-> {"amd64"},
     freebsd |-> {"386", "amd64", "arm"},
     linux |-> {"386", "amd64", "arm", "arm64", "ppc64", "ppc64le", "mips64",
                "mips64le"},
     netbsd |-> {"386", "amd64", "arm"},
     openbsd |-> {"386", "amd64", "arm"},
     plan9 |-> {"386", "amd64"},
     solaris |-> {"amd64"},
     windows |-> {"386", "amd64"}]

checkPlatform(platform) ==
    IF platform.OS \in DOMAIN validCombins
    THEN IF platform.Arch \in validCombins[platform.OS]
         THEN Pass(<< >>)
         ELSE Fail("Combination of \"" \o platform.OS \o "\" and \""
                   \o platform.Arch \o "\" is invalid.", << >>)
    ELSE Fail("Operation system \"" \o platform.OS
              \o "\" of the bundle is not supported yet.", << >>)

\* the warnings envValid logs over the entries 1..n of envs
RECURSIVE EnvWarnsUpTo(_, _)
EnvWarnsUpTo(envs, n) ==
    IF n = 0 THEN << >> ELSE EnvWarnsUpTo(envs, n - 1) \o envWarns(envs[n])

\* the index of the first FALSE of oks, the per-element results of a loop's
\* test in element order; 0 when every element passes
FirstBad(oks) ==
    IF \E i \in DOMAIN oks : ~oks[i]
    THEN Min({i \in DOMAIN oks : ~oks[i]})
    ELSE 0

\* os.Stat(path.Join(rootfs, "/etc/apparmor.d", profile)) returns no error
ProfileExists(f, profile) == profile \in f.profiles

checkProcess(process, f) ==
    LET badEnv == FirstBad([i \in DOMAIN process.Env |-> envValid(process.Env[i])])
        envW == EnvWarnsUpTo(process.Env,
                             IF badEnv = 0 THEN Len(process.Env) ELSE badEnv)
        badCap == FirstBad([i \in DOMAIN process.Capabilities |->
                            capValid(process.Capabilities[i])])
        badRl == FirstBad([i \in DOMAIN process.Rlimits |->
                           rlimitValid(process.Rlimits[i].Type)])
    IN  IF ~IsAbs(process.Cwd)
        THEN Fail("cwd \"" \o process.Cwd \o "\" is not an absolute path", << >>)
        ELSE IF badEnv # 0
        THEN Fail("env \"" \o process.Env[badEnv]
                  \o "\" should be in the form of 'key=value'.", envW)
        ELSE IF badCap # 0
        THEN Fail("capability \"" \o process.Capabilities[badCap]
                  \o "\" is not valid, man capabilities(7)", envW)
        ELSE IF badRl # 0
        THEN Fail("rlimit type \"" \o process.Rlimits[badRl].Type
                  \o "\" is invalid.", envW)
        ELSE IF Len(process.ApparmorProfile) > 0
                /\ ~ProfileExists(f, process.ApparmorProfile)
        THEN Fail("stat /etc/apparmor.d/" \o process.ApparmorProfile
                  \o ": no such file or directory", envW)
        ELSE Pass(envW)

\* the type a line of /proc/filesystems registers: the text after the first
\* tab, up to the next one, or the whole line when it has no tab
LineType(text) ==
    IF SplitCount(text, "\t") > 1 THEN SplitItem(text, "\t", 2)
    ELSE SplitItem(text, "\t", 1)

NoTypes == [nil |-> TRUE, types |-> {}]

supportedMountTypesNoBind(OS, hc, f) ==
    IF OS # "linux" /\ OS # "windows"
    THEN [set |-> NoTypes, err |-> "",
          warns |-> << OS \o " is not supported to check mount type" >>]
    ELSE IF OS = "windows"
    THEN [set |-> [nil |-> FALSE, types |-> {"ntfs"}], err |-> "", warns |-> << >>]
    ELSE IF hc
    THEN IF ~f.procOpen
         THEN [set |-> NoTypes, err |-> "open /proc/filesystems: no such file",
               warns |-> << >>]
         ELSE [set |-> [nil |-> FALSE,
                        types |-> {LineType(f.procLines[i]) : i \in DOMAIN f.procLines}],
               err |-> "", warns |-> << >>]
    ELSE [set |-> NoTypes, err |-> "",
          warns |-> << "Checking linux mount types without --host-specific is not supported yet" >>]

supportedMountTypes(OS, hc, f) ==
    IF OS # "linux" /\ OS # "windows"
    THEN [set |-> NoTypes, err |-> "",
          warns |-> << OS \o " is not supported to check mount type" >>]
    ELSE IF OS = "windows"
    THEN [set |-> [nil |-> FALSE, types |-> {"ntfs"}], err |-> "", warns |-> << >>]
    ELSE IF hc
    THEN IF ~f.procOpen
         THEN [set |-> NoTypes, err |-> "open /proc/filesystems: no such file",
               warns |-> << >>]
         ELSE [set |-> [nil |-> FALSE,
                        types |-> {LineType(f.procLines[i]) : i \in DOMAIN f.procLines}
                                  \cup {"bind"}],
               err |-> "", warns |-> << >>]
    ELSE [set |-> NoTypes, err |-> "",
          warns |-> << "Checking linux mount types without --host-specific is not supported yet" >>]

checkMounts(sp, hc, f) ==
    LET st == supportedMountTypes(sp.Platform.OS, hc, f)
        bad == FirstBad([i \in DOMAIN sp.Mounts |->
                         sp.Mounts[i].Type \in st.set.types])
    IN  IF st.err # "" THEN Fail(st.err, st.warns)
        ELSE IF ~st.set.nil /\ bad # 0
        THEN Fail("Unsupported mount type \"" \o sp.Mounts[bad].Type \o "\"", st.warns)
        ELSE Pass(st.warns)


NoSeccomp == [nil |-> TRUE]

checkSeccomp(sc) ==
    LET badSys == FirstBad([i \in DOMAIN sc.Syscalls |-> syscallValid(sc.Syscalls[i])])
        badArch == FirstBad([i \in DOMAIN sc.Architectures |->
                             sc.Architectures[i] \in SeccompArchs])
    IN  IF ~seccompActionValid(sc.DefaultAction)
        THEN Fail("seccomp defaultAction \"" \o sc.DefaultAction \o "\" is invalid.", << >>)
        ELSE IF badSys # 0
        THEN Fail("syscall " \o ToString(sc.Syscalls[badSys]) \o " is invalid.", << >>)
        ELSE IF badArch # 0
        THEN Fail("seccomp architecture \"" \o sc.Architectures[badArch]
                  \o "\" is invalid", << >>)
        ELSE Pass(<< >>)

NoFlags == [uts |-> FALSE, ipc |-> FALSE, net |-> FALSE, mount |-> FALSE]

NsStepIgnoringPath(flags, ns) ==
    IF ns.Type = "uts" THEN [flags EXCEPT !.uts = TRUE]
    ELSE IF ns.Type = "ipc" THEN [flags EXCEPT !.ipc = TRUE]
    ELSE IF ns.Type = "network" THEN [flags EXCEPT !.net = TRUE]
    ELSE IF ns.Type = "mount" THEN [flags EXCEPT !.mount = TRUE]
    ELSE flags

\* a namespace loop where the last entry of a kind decides its flag
NsStepLastWins(flags, ns) ==
    IF ns.Type = "uts" THEN [flags EXCEPT !.uts = (Len(ns.Path) = 0)]
    ELSE IF ns.Type = "ipc" THEN [flags EXCEPT !.ipc = (Len(ns.Path) = 0)]
    ELSE IF ns.Type = "network" THEN [flags EXCEPT !.net = (Len(ns.Path) = 0)]
    ELSE IF ns.Type = "mount" THEN [flags EXCEPT !.mount = (Len(ns.Path) = 0)]
    ELSE flags

\* one iteration of the namespace loop of checkLinux on a valid entry
NsStep(flags, ns) ==
    IF Len(ns.Path) = 0
    THEN IF ns.Type = "uts" THEN [flags EXCEPT !.uts = TRUE]
         ELSE IF ns.Type = "ipc" THEN [flags EXCEPT !.ipc = TRUE]
         ELSE IF ns.Type = "network" THEN [flags EXCEPT !.net = TRUE]
         ELSE IF ns.Type = "mount" THEN [flags EXCEPT !.mount = TRUE]
         ELSE flags
    ELSE flags

\* utsExists, ipcExists, netExists, mountExists after the entries 1..n
RECURSIVE NsFlags(_, _)
NsFlags(namespaces, n) ==
    IF n = 0 THEN NoFlags ELSE NsStep(NsFlags(namespaces, n - 1), namespaces[n])

\* the fatal message the sysctl loop logs for key k, "" when it logs none
SysctlMsg(k, flags) ==
    IF HasPrefix(k, "net.") /\ ~flags.net
    THEN "Sysctl " \o k \o " requires a new Network namespace to be specified as well"
    ELSE IF HasPrefix(k, "fs.mqueue.") /\ (~flags.mount \/ ~flags.ipc)
    THEN "Sysctl " \o k
         \o " requires a new IPC namespace and Mount namespace to be specified as well"
    ELSE ""

\* checkLinux with the seccomp policy checked before the devices
checkLinuxSeccompFirst(sp, ord) ==
    LET lx == sp.Linux
        badNs == FirstBad([i \in DOMAIN lx.Namespaces |->
                          namespaceValid(lx.Namespaces[i])])
        flags == NsFlags(lx.Namespaces, Len(lx.Namespaces))
        keys == KeysInOrder(lx.Sysctl, ord)
        badKey == FirstBad([i \in DOMAIN keys |-> SysctlMsg(keys[i], flags) = ""])
        badDev == FirstBad([i \in DOMAIN lx.Devices |-> deviceValid(lx.Devices[i])])
        sec == IF lx.Seccomp.nil THEN Pass(<< >>) ELSE checkSeccomp(lx.Seccomp)
    IN  IF Len(lx.UIDMappings) > 5
        THEN Fail("Only 5 UID mappings are allowed (linux kernel restriction).", << >>)
        ELSE IF Len(lx.GIDMappings) > 5
        THEN Fail("Only 5 GID mappings are allowed (linux kernel restriction).", << >>)
        ELSE IF badNs # 0
        THEN Fail("namespace " \o ToString(lx.Namespaces[badNs]) \o " is invalid.", << >>)
        ELSE IF badKey # 0
        THEN Fail(SysctlMsg(keys[badKey], flags), << >>)
        ELSE IF sp.Platform.OS = "linux" /\ ~flags.uts /\ sp.Hostname # ""
        THEN Fail("On Linux, hostname requires a new UTS namespace to be specified as well",
                  << >>)
        ELSE IF ~sec.ok
        THEN sec
        ELSE IF badDev # 0
        THEN Fail("device " \o ToString(lx.Devices[badDev]) \o " is invalid.", << >>)
        ELSE IF lx.RootfsPropagation \notin
                    {"", "private", "rprivate", "slave", "rslave", "shared", "rshared"}
        THEN Fail("rootfsPropagation must be empty or one of \"private|rprivate|slave|rslave|shared|rshared\"",
                  << >>)
        ELSE Pass(<< >>)

checkLinux(sp, ord) ==
    LET lx == sp.Linux
        badNs == FirstBad([i \in DOMAIN lx.Namespaces |->
                          namespaceValid(lx.Namespaces[i])])
        flags == NsFlags(lx.Namespaces, Len(lx.Namespaces))
        keys == KeysInOrder(lx.Sysctl, ord)
        badKey == FirstBad([i \in DOMAIN keys |-> SysctlMsg(keys[i], flags) = ""])
        badDev == FirstBad([i \in DOMAIN lx.Devices |-> deviceValid(lx.Devices[i])])
        sec == IF lx.Seccomp.nil THEN Pass(<< >>) ELSE checkSeccomp(lx.Seccomp)
    IN  IF Len(lx.UIDMappings) > 5
        THEN Fail("Only 5 UID mappings are allowed (linux kernel restriction).", << >>)
        ELSE IF Len(lx.GIDMappings) > 5
        THEN Fail("Only 5 GID mappings are allowed (linux kernel restriction).", << >>)
        ELSE IF badNs # 0
        THEN Fail("namespace " \o ToString(lx.Namespaces[badNs]) \o " is invalid.", << >>)
        ELSE IF badKey # 0
        THEN Fail(SysctlMsg(keys[badKey], flags), << >>)
        ELSE IF sp.Platform.OS = "linux" /\ ~flags.uts /\ sp.Hostname # ""
        THEN Fail("On Linux, hostname requires a new UTS namespace to be specified as well",
                  << >>)
        ELSE IF badDev # 0
        THEN Fail("device " \o ToString(lx.Devices[badDev]) \o " is invalid.", << >>)
        ELSE IF ~sec.ok
        THEN sec
        ELSE IF lx.RootfsPropagation \notin
                    {"", "private", "rprivate", "slave", "rslave", "shared", "rshared"}
        THEN Fail("rootfsPropagation must be empty or one of \"private|rprivate|slave|rslave|shared|rshared\"",
                  << >>)
        ELSE Pass(<< >>)

HookStepAlwaysStat(hookType, hook, hc, f) ==
    LET badEnv == FirstBad([i \in DOMAIN hook.Env |-> envValid(hook.Env[i])])
        envW == EnvWarnsUpTo(hook.Env, IF badEnv = 0 THEN Len(hook.Env) ELSE badEnv)
    IN  IF ~IsAbs(hook.Path)
        THEN Fail("The " \o hookType \o " hook " \o hook.Path \o ": is not absolute path",
                  << >>)
        ELSE IF hook.Path \notin f.exists
        THEN Fail("Cannot find " \o hookType \o " hook: " \o hook.Path, << >>)
        ELSE IF hook.Path \notin f.exec
        THEN Fail("The " \o hookType \o " hook " \o hook.Path \o ": is not executable",
                  << >>)
        ELSE IF badEnv # 0
        THEN Fail("Env \"" \o hook.Env[badEnv] \o "\" for hook " \o hook.Path
                  \o " is in the invalid form.", envW)
        ELSE Pass(envW)

\* one iteration of the hook loop of checkEventHooks
HookStep(hookType, hook, hc, f) ==
    LET badEnv == FirstBad([i \in DOMAIN hook.Env |-> envValid(hook.Env[i])])
        envW == EnvWarnsUpTo(hook.Env, IF badEnv = 0 THEN Len(hook.Env) ELSE badEnv)
    IN  IF ~IsAbs(hook.Path)
        THEN Fail("The " \o hookType \o " hook " \o hook.Path \o ": is not absolute path",
                  << >>)
        ELSE IF hc /\ hook.Path \notin f.exists
        THEN Fail("Cannot find " \o hookType \o " hook: " \o hook.Path, << >>)
        ELSE IF hc /\ hook.Path \notin f.exec
        THEN Fail("The " \o hookType \o " hook " \o hook.Path \o ": is not executable",
                  << >>)
        ELSE IF badEnv # 0
        THEN Fail("Env \"" \o hook.Env[badEnv] \o "\" for hook " \o hook.Path
                  \o " is in the invalid form.", envW)
        ELSE Pass(envW)

\* r, then r2 when r passed: the warnings add up, the first fatal message ends
Then(r, r2) ==
    IF ~r.ok THEN r ELSE [r2 EXCEPT !.warns = r.warns \o r2.warns]

RECURSIVE checkEventHooksFrom(_, _, _, _, _)
checkEventHooksFrom(hookType, hooks, i, hc, f) ==
    IF i > Len(hooks) THEN Pass(<< >>)
    ELSE Then(HookStep(hookType, hooks[i], hc, f),
              checkEventHooksFrom(hookType, hooks, i + 1, hc, f))

checkEventHooks(hookType, hooks, hc, f) == checkEventHooksFrom(hookType, hooks, 1, hc, f)

checkHooks(hooks, hc, f) ==
    Then(checkEventHooks("pre-start", hooks.Prestart, hc, f),
         Then(checkEventHooks("post-start", hooks.Poststart, hc, f),
              checkEventHooks("post-stop", hooks.Poststop, hc, f)))

\* fmt's %s of a []string: the entries between brackets, separated by spaces
RECURSIVE JoinMsgs(_)
JoinMsgs(msgs) ==
    IF Len(msgs) = 0 THEN ""
    ELSE IF Len(msgs) = 1 THEN msgs[1]
    ELSE msgs[1] \o " " \o JoinMsgs(Tail(msgs))

checkMandatoryField(o, ord) ==
    LET r == checkMandatory(o, ord)
    IN  IF ~r.valid
        THEN Fail("Mandatory information missing: [" \o JoinMsgs(r.msgs) \o "].", << >>)
        ELSE Pass(<< >>)


-----------------------------------------------------------------------------
(* The reflect view of an rspec.Spec: the fields validate.go reads, with   *)
(* the omitempty tags of runtime-spec's specs-go.                          *)

FString(name, omit, str) ==
    [name |-> name, omitempty |-> omit, v |-> [kind |-> "String", len |-> Len(str)]]

FStruct(name, omit, st) == [name |-> name, omitempty |-> omit, v |-> st]

FSlice(name, omit, elems) ==
    [name |-> name, omitempty |-> omit,
     v |-> [kind |-> "Slice", nil |-> Len(elems) = 0, elems |-> elems]]

FMap(name, omit, vals) ==
    [name |-> name, omitempty |-> omit,
     v |-> [kind |-> "Map", nil |-> DOMAIN vals = {}, vals |-> vals]]

FInt(name, omit) == [name |-> name, omitempty |-> omit, v |-> [kind |-> "Int"]]

Struct(name, fields) == [kind |-> "Struct", name |-> name, fields |-> fields]

StrVal(str) == [kind |-> "String", len |-> Len(str)]

StrVals(strs) == [i \in DOMAIN strs |-> StrVal(strs[i])]

ReflectHook(h) ==
    Struct("Hook", << FString("Path", FALSE, h.Path),
                      FSlice("Env", TRUE, StrVals(h.Env)) >>)

ReflectHooks(hs) == [i \in DOMAIN hs |-> ReflectHook(hs[i])]

ReflectSeccomp(sc) ==
    IF sc.nil THEN [kind |-> "Ptr", elem |-> "Struct", nil |-> TRUE]
    ELSE [kind |-> "Ptr", elem |-> "Struct", nil |-> FALSE,
          v |-> Struct("Seccomp",
                  << FString("DefaultAction", FALSE, sc.DefaultAction),
                     FSlice("Architectures", FALSE, StrVals(sc.Architectures)),
                     FSlice("Syscalls", TRUE,
                            [i \in DOMAIN sc.Syscalls |->
                               Struct("Syscall",
                                 << FString("Name", FALSE, sc.Syscalls[i].Name),
                                    FString("Action", FALSE, sc.Syscalls[i].Action),
                                    FSlice("Args", TRUE,
                                           [j \in DOMAIN sc.Syscalls[i].Args |->
                                              Struct("Arg", << FInt("Index", FALSE),
                                                               FString("Op", FALSE,
                                                                 sc.Syscalls[i].Args[j].Op) >>)])
                                 >>)]) >>)]

ReflectLinux(lx) ==
    Struct("Linux",
      << FSlice("UIDMappings", TRUE,
                [i \in DOMAIN lx.UIDMappings |->
                   Struct("IDMapping", << FInt("HostID", FALSE), FInt("Size", FALSE) >>)]),
         FSlice("GIDMappings", TRUE,
                [i \in DOMAIN lx.GIDMappings |->
                   Struct("IDMapping", << FInt("HostID", FALSE), FInt("Size", FALSE) >>)]),
         FMap("Sysctl", TRUE, [k \in DOMAIN lx.Sysctl |-> StrVal(lx.Sysctl[k])]),
         FSlice("Namespaces", TRUE,
                [i \in DOMAIN lx.Namespaces |->
                   Struct("Namespace",
                     << FString("Type", FALSE, lx.Namespaces[i].Type),
                        FString("Path", TRUE, lx.Namespaces[i].Path) >>)]),
         FSlice("Devices", TRUE,
                [i \in DOMAIN lx.Devices |->
                   Struct("Device",
                     << FString("Type", FALSE, lx.Devices[i].Type),
                        FInt("Major", FALSE), FInt("Minor", FALSE) >>)]),
         [name |-> "Seccomp", omitempty |-> TRUE, v |-> ReflectSeccomp(lx.Seccomp)],
         FString("RootfsPropagation", TRUE, lx.RootfsPropagation) >>)

Reflect(sp) ==
    Struct("Spec",
      << FString("Version", FALSE, sp.Version),
         FStruct("Platform", FALSE,
                 Struct("Platform", << FString("OS", FALSE, sp.Platform.OS),
                                       FString("Arch", FALSE, sp.Platform.Arch) >>)),
         FStruct("Process", FALSE,
                 Struct("Process",
                   << FSlice("Args", FALSE, StrVals(sp.Process.Args)),
                      FSlice("Env", TRUE, StrVals(sp.Process.Env)),
                      FString("Cwd", FALSE, sp.Process.Cwd),
                      FSlice("Capabilities", TRUE, StrVals(sp.Process.Capabilities)),
                      FSlice("Rlimits", TRUE,
                             [i \in DOMAIN sp.Process.Rlimits |->
                                Struct("Rlimit",
                                  << FString("Type", FALSE, sp.Process.Rlimits[i].Type),
                                     FInt("Hard", FALSE), FInt("Soft", FALSE) >>)]),
                      FString("ApparmorProfile", TRUE, sp.Process.ApparmorProfile) >>)),
         FStruct("Root", FALSE,
                 Struct("Root", << FString("Path", FALSE, sp.Root.Path) >>)),
         FString("Hostname", TRUE, sp.Hostname),
         FSlice("Mounts", TRUE,
                [i \in DOMAIN sp.Mounts |->
                   Struct("Mount",
                     << FString("Destination", FALSE, sp.Mounts[i].Destination),
                        FString("Type", FALSE, sp.Mounts[i].Type),
                        FString("Source", FALSE, sp.Mounts[i].Source) >>)]),
         FStruct("Hooks", FALSE,
                 Struct("Hooks",
                   << FSlice("Prestart", TRUE, ReflectHooks(sp.Hooks.Prestart)),
                      FSlice("Poststart", TRUE, ReflectHooks(sp.Hooks.Poststart)),
                      FSlice("Poststop", TRUE, ReflectHooks(sp.Hooks.Poststop)) >>)),
         FStruct("Linux", FALSE, ReflectLinux(sp.Linux)) >>)


-----------------------------------------------------------------------------
(* Configurations and filesystem states.                                   *)

NoSysctl == [k \in {} |-> ""]

Hook(path, env) == [Path |-> path, Env |-> env]

Mount(type) == [Destination |-> "/mnt", Type |-> type, Source |-> "src"]

Namespace(type, path) == [Type |-> type, Path |-> path]

Device(type, major, minor) == [Type |-> type, Major |-> major, Minor |-> minor]

IDMappings(n) == [i \in 1..n |-> [HostID |-> 0, Size |-> 1]]

\* a configuration every check passes
Base ==
    [Version |-> RspecVersion,
     Platform |-> [OS |-> "linux", Arch |-> "amd64"],
     Process |-> [Args |-> << "sh" >>, Cwd |-> "/", Env |-> << >>,
                  Capabilities |-> << >>, Rlimits |-> << >>, ApparmorProfile |-> ""],
     Root |-> [Path |-> "rootfs"],
     Hostname |-> "",
     Mounts |-> << >>,
     Hooks |-> [Prestart |-> << >>, Poststart |-> << >>, Poststop |-> << >>],
     Linux |-> [UIDMappings |-> << >>, GIDMappings |-> << >>, Sysctl |-> NoSysctl,
                Namespaces |-> << >>, Devices |-> << >>, Seccomp |-> NoSeccomp,
                RootfsPropagation |-> ""]]

Perms(S) ==
    {f \in [1..Cardinality(S) -> S] : \A i, j \in DOMAIN f : i # j => f[i] # f[j]}

\* the orders in which Go may iterate over the sysctl map of sp
Orders(sp) == Perms(DOMAIN sp.Linux.Sysctl)

HookFiles == {[exists |-> {}, exec |-> {}],
              [exists |-> {"/h"}, exec |-> {}],
              [exists |-> {"/h"}, exec |-> {"/h"}]}

ProcFiles == {<< "nodev\tsysfs", "\text4" >>, << "ext4", "nodev\tproc\t" >>}

Fs(profiles, hf, open, lines) ==
    [profiles |-> profiles, exists |-> hf.exists, exec |-> hf.exec,
     procOpen |-> open, procLines |-> lines]

FsStates ==
    {Fs(ps, hf, open, lines) :
        ps \in SUBSET {"prof"}, hf \in HookFiles, open \in BOOLEAN, lines \in ProcFiles}

\* a host where every probe finds what it looks for
GoodFs == Fs({"prof"}, [exists |-> {"/h"}, exec |-> {"/h"}], TRUE,
             << "nodev\tsysfs", "\text4" >>)

-----------------------------------------------------------------------------
(* The driver: bundleValidate, one action per check.                       *)

NoRun == [pc |-> "none"]

\* a driver that goes on to the next check whatever the result
AfterIgnoringFailure(r, next) == next

\* the position after a check: logrus.Fatalf exits, otherwise the next line
After(r, next) == IF r.ok THEN next ELSE "fatal"

\* the effect of one check of bundleValidate with result r
Step(name, r, next) ==
    /\ pc = name
    /\ pc' = After(r, next)
    /\ started' = Append(started, name)
    /\ diag' = IF r.ok THEN diag ELSE Append(diag, r.msg)
    /\ warns' = warns \o r.warns
    /\ UNCHANGED <<spec, obj, hostCheck, fs, order, ret, prev>>

CheckMandatoryField == Step("mandatory", checkMandatoryField(obj, order), "semver")

CheckSemVer == Step("semver", checkSemVer(spec.Version), "platform")

CheckPlatform == Step("platform", checkPlatform(spec.Platform), "process")

CheckProcessThenLinux == Step("process", checkProcess(spec.Process, fs), "linux")

CheckProcess == Step("process", checkProcess(spec.Process, fs), "mounts")

CheckMounts == Step("mounts", checkMounts(spec, hostCheck, fs), "linux")

\* a driver that applies the Linux check to linux configurations only
CheckLinuxOnLinuxOnly ==
    Step("linux",
         IF spec.Platform.OS = "linux" THEN checkLinux(spec, order) ELSE Pass(<< >>),
         "hooks")

CheckLinux == Step("linux", checkLinux(spec, order), "hooks")

CheckHooks == Step("hooks", checkHooks(spec.Hooks, hostCheck, fs), "return")

\* bundleValidate returned: logrus.Infof("Bundle validation succeeded.")
Succeed ==
    /\ pc = "return"
    /\ pc' = "done"
    /\ UNCHANGED <<spec, obj, hostCheck, fs, order, started, diag, warns, ret, prev>>

\* the same configuration is validated again, on any filesystem state
Rerun ==
    /\ pc \in {"done", "fatal"}
    /\ prev = NoRun
    /\ prev' = [pc |-> pc, diag |-> diag, warns |-> warns, fs |-> fs, order |-> order]
    /\ pc' = "mandatory"
    /\ started' = << >>
    /\ diag' = << >>
    /\ warns' = << >>
    /\ fs' \in {f \in FsStates : f.procLines = fs.procLines}
    /\ order' \in Orders(spec)
    /\ UNCHANGED <<spec, obj, hostCheck, ret>>

\* a direct call of checkMandatory on obj
CallCheckMandatory ==
    /\ pc = "call"
    /\ pc' = "returned"
    /\ ret' = checkMandatory(obj, order)
    /\ UNCHANGED <<spec, obj, hostCheck, fs, order, started, diag, warns, prev>>

Start(configs, flags, fss) ==
    /\ spec \in configs
    /\ obj = Reflect(spec)
    /\ hostCheck \in flags
    /\ fs \in fss
    /\ order \in Orders(spec)
    /\ pc = "mandatory"
    /\ started = << >>
    /\ diag = << >>
    /\ warns = << >>
    /\ ret = None
    /\ prev = NoRun

Next ==
    \/ CheckMandatoryField
    \/ CheckSemVer
    \/ CheckPlatform
    \/ CheckProcess
    \/ CheckMounts
    \/ CheckLinux
    \/ CheckHooks
    \/ Succeed

\* configurations in which any number of checks fail at once
BroadConfigs ==
    {[Base EXCEPT !.Version = ver, !.Platform.Arch = arch, !.Process.Cwd = cwd,
                  !.Process.Env = env, !.Process.ApparmorProfile = prof,
                  !.Mounts = mnt, !.Linux.RootfsPropagation = prop,
                  !.Hooks.Prestart = pre, !.Hooks.Poststop = post] :
        ver \in {RspecVersion, "9.9.9", ""},
        arch \in {"amd64", "sparc"},
        cwd \in {"/", "rel", ""},
        env \in {<< "1A=b" >>, << "A" >>},
        prof \in {"", "prof"},
        mnt \in {<< >>, << Mount("zfs") >>},
        prop \in {"", "bogus"},
        pre \in {<< >>, << Hook("/h", << >>) >>, << Hook("", << >>) >>},
        post \in {<< >>, << Hook("h", << >>) >>}}

BroadFs ==
    {Fs(ps, hf, TRUE, << "nodev\tsysfs", "\text4" >>) :
        ps \in SUBSET {"prof"}, hf \in HookFiles}

Init == Start(BroadConfigs, BOOLEAN, BroadFs)

Spec == Init /\ [][Next]_vars


-----------------------------------------------------------------------------
(* The driver on focused families of configurations.                       *)

RECURSIVE StringsUpTo(_, _)
\* the strings of at most n characters of alphabet
StringsUpTo(alphabet, n) ==
    IF n = 0 THEN {""}
    ELSE LET shorter == StringsUpTo(alphabet, n - 1)
         IN  shorter \cup {str \o c : str \in shorter, c \in alphabet}

EnvStrings == StringsUpTo({"A", "1", "_", "=", "-", " "}, MaxEnvLen)

\* one environment entry, of the process or of a pre-start hook
EnvConfigs ==
    {[Base EXCEPT !.Process.Env = << e >>] : e \in EnvStrings}
    \cup {[Base EXCEPT !.Hooks.Prestart = << Hook("/h", << e >>) >>] : e \in EnvStrings}

InitEnv == Start(EnvConfigs, {FALSE}, {GoodFs})

SpecEnv == InitEnv /\ [][Next]_vars

Devices ==
    {Device(t, major, minor) :
        t \in {"b", "c", "u", "p", "x"},
        major \in -DevRange..DevRange, minor \in -DevRange..DevRange}

NamespaceEntries ==
    {Namespace(t, "") : t \in {"network", "mount", "ipc", "uts", "bogus"}}
    \cup {Namespace(t, "/ns") : t \in {"network", "ipc", "uts"}}

SysctlKeySets ==
    {{}, {"net.a"}, {"fs.mqueue.b"}, {"net.a", "fs.mqueue.b"}, {"net", "fs.mqueue"}}

LinuxConfigs ==
    {[Base EXCEPT !.Linux.Devices = ds] :
        ds \in {<< >>} \cup {<< d >> : d \in Devices}
                \cup {<< d, e >> : d \in Devices,
                                   e \in {Device("c", 0, 0), Device("x", 1, 1),
                                           Device("u", 0, 1)}}}
    \cup {[Base EXCEPT !.Linux.Namespaces = ns,
                       !.Linux.Sysctl = [k \in keys |-> "1"],
                       !.Platform.OS = oh[1], !.Hostname = oh[2]] :
             ns \in SeqsUpTo(NamespaceEntries, MaxNamespaces),
             keys \in SysctlKeySets,
             oh \in {<< "linux", "" >>, << "linux", "host" >>, << "windows", "host" >>}}

InitLinux == Start(LinuxConfigs, {FALSE}, {GoodFs})

SpecLinux == InitLinux /\ [][Next]_vars

\* a seccomp policy that is present (spec.Linux.Seccomp != nil)
Seccomp(action, archs, syscalls) ==
    [nil |-> FALSE, DefaultAction |-> action, Architectures |-> archs,
     Syscalls |-> syscalls]

Syscall(action, ops) ==
    [Name |-> "read", Action |-> action,
     Args |-> [i \in DOMAIN ops |-> [Index |-> 0, Op |-> ops[i]]]]

\* no policy, a valid one, and one for each way checkSeccomp fails; every
\* string is non-empty, so the presence walk accepts them all
SeccompPolicies ==
    {NoSeccomp,
     Seccomp("SCMP_ACT_ALLOW", << "SCMP_ARCH_X86" >>,
             << Syscall("SCMP_ACT_KILL", << "SCMP_CMP_EQ" >>) >>),
     Seccomp("ALLOW", << "SCMP_ARCH_X86" >>, << >>),
     Seccomp("SCMP_ACT_ALLOW", << "SCMP_ARCH_X86" >>, << Syscall("KILL", << >>) >>),
     Seccomp("SCMP_ACT_ALLOW", << "SCMP_ARCH_X86" >>,
             << Syscall("SCMP_ACT_KILL", << "EQ" >>) >>),
     Seccomp("SCMP_ACT_ALLOW", << "SCMP_ARCH_X86", "X86" >>, << >>)}

\* the rules of checkLinux a configuration may break, one name per rule
RuleNames == {"uid", "gid", "ns", "net", "mqueue", "host", "dev", "rootfs"}

\* a configuration with a hostname and both kinds of sysctl keys that breaks
\* exactly the rules named in vs: a rule about a namespace is kept by
\* declaring that namespace with an empty path
RuleConfig(os, vs, sc) ==
    [Base EXCEPT
       !.Platform.OS = os,
       !.Hostname = "host",
       !.Linux = [UIDMappings |-> IDMappings(IF "uid" \in vs THEN 6 ELSE 5),
                  GIDMappings |-> IDMappings(IF "gid" \in vs THEN 6 ELSE 1),
                  Sysctl |-> [k \in {"net.a", "fs.mqueue.b"} |-> "1"],
                  Namespaces |->
                      (IF "net" \in vs THEN << Namespace("network", "/ns") >>
                       ELSE << Namespace("network", "") >>)
                      \o (IF "ns" \in vs THEN << Namespace("bogus", "") >> ELSE << >>)
                      \o (IF "mqueue" \in vs THEN << Namespace("mount", "") >>
                          ELSE << Namespace("ipc", ""), Namespace("mount", "") >>)
                      \o (IF "host" \in vs THEN << >> ELSE << Namespace("uts", "") >>),
                  Devices |-> IF "dev" \in vs
                              THEN << Device("c", 1, 1), Device("x", 1, 1) >>
                              ELSE << Device("c", 1, 1) >>,
                  Seccomp |-> sc,
                  RootfsPropagation |-> IF "rootfs" \in vs THEN "unbindable"
                                        ELSE "rslave"]]

RuleConfigs ==
    {RuleConfig(os, vs, sc) :
        os \in {"linux", "windows", "darwin"}, vs \in SUBSET RuleNames,
        sc \in SeccompPolicies}

InitRules == Start(RuleConfigs, {FALSE}, {GoodFs})

SpecRules == InitRules /\ [][Next]_vars

MountConfigs ==
    {[Base EXCEPT !.Platform.OS = os, !.Mounts = ms] :
        os \in {"linux", "windows", "solaris"},
        ms \in SeqsUpTo({Mount(t) : t \in {"bind", "ext4", "ntfs", "proc"}}, 2)}

MountFs ==
    {Fs({}, [exists |-> {}, exec |-> {}], open, lines) :
        open \in BOOLEAN, lines \in ProcFiles}

InitMounts == Start(MountConfigs, BOOLEAN, MountFs)

SpecMounts == InitMounts /\ [][Next]_vars

\* configurations whose checks read the filesystem or iterate over a map
RerunConfigs ==
    {[Base EXCEPT !.Process.ApparmorProfile = prof, !.Mounts = ms,
                  !.Hooks.Prestart = pre, !.Linux.Sysctl = [k \in keys |-> "1"]] :
        prof \in {"", "prof"},
        ms \in {<< >>, << Mount("ext4") >>},
        pre \in {<< >>, << Hook("/h", << >>) >>},
        keys \in {{}, {"net.a"}, {"net.a", "net.b"}}}

RerunFs == {f \in FsStates : f.procLines = GoodFs.procLines}

InitRerun == Start(RerunConfigs, BOOLEAN, RerunFs)

NextRerun == Next \/ Rerun

SpecRerun == InitRerun /\ [][NextRerun]_vars

-----------------------------------------------------------------------------
(* Properties of the driver.                                               *)

SemanticOrder == << "semver", "platform", "process", "mounts", "linux", "hooks" >>

\* what each semantic check answers on this run's inputs, in SemanticOrder
SemanticResults ==
    << checkSemVer(spec.Version), checkPlatform(spec.Platform),
       checkProcess(spec.Process, fs), checkMounts(spec, hostCheck, fs),
       checkLinux(spec, order), checkHooks(spec.Hooks, hostCheck, fs) >>

PresenceResult == checkMandatory(obj, order)

IsPrefix(s, t) == Len(s) <= Len(t) /\ SubSeq(t, 1, Len(s)) = s

\* C1: the presence check runs first; when it reports a violation the run
\* ends as a failure whose only diagnostic is the aggregated list of presence
\* messages, no semantic check is started and no advisory is logged.
C1_PresenceFailureEndsRun ==
    /\ started # << >> => started[1] = "mandatory"
    /\ pc # "mandatory" =>
          \A p \in {PresenceResult} :
              ~p.valid =>
                  /\ pc = "fatal"
                  /\ started = << "mandatory" >>
                  /\ diag = << "Mandatory information missing: ["
                               \o JoinMsgs(p.msgs) \o "]." >>
                  /\ warns = << >>

C1_Witness ==
    /\ pc = "fatal"
    /\ started = << "mandatory" >>
    /\ Len(PresenceResult.msgs) >= 2
    /\ \E i \in 1..6 : ~SemanticResults[i].ok

\* C2: when presence passes, the semantic checks run in the order version,
\* platform, process, mounts, linux, hooks; the run fails iff one of them fails,
\* its single diagnostic is that of the first failing check, nothing is started
\* after it, and with no failing check the run ends in success.
C2_FailFastInOrder ==
    PresenceResult.valid =>
        \A res \in {SemanticResults} :
        \A failing \in {{i \in 1..6 : ~res[i].ok}} :
            /\ IsPrefix(started, << "mandatory" >> \o SemanticOrder)
            /\ Len(diag) <= 1
            /\ pc = "fatal" =>
                  /\ failing # {}
                  /\ started = << "mandatory" >> \o SubSeq(SemanticOrder, 1, Min(failing))
                  /\ diag = << res[Min(failing)].msg >>
            /\ pc \in {"return", "done"} =>
                  /\ failing = {}
                  /\ diag = << >>
                  /\ started = << "mandatory" >> \o SemanticOrder
            /\ pc \notin {"fatal", "done"} =>
                  /\ pc \in Range(SemanticOrder) \cup {"mandatory", "return"}
                  /\ diag = << >>
                  /\ \A i \in failing : Len(started) <= i

C2_Witness ==
    /\ PresenceResult.valid
    /\ pc = "fatal"
    /\ Len(started) = 4
    /\ Cardinality({i \in 1..6 : ~SemanticResults[i].ok}) >= 3

-----------------------------------------------------------------------------
(* checkMandatory called on record trees of every field category: text,    *)
(* nested record, optional and required record reference, sequence and     *)
(* mapping of records, mapping of text, reference to a number, number.     *)

NilPtr == [kind |-> "Ptr", elem |-> "Struct", nil |-> TRUE]

PtrTo(st) == [kind |-> "Ptr", elem |-> "Struct", nil |-> FALSE, v |-> st]

Leaf(key, id, val) ==
    Struct("Leaf", << FString("Key", FALSE, key), FString("Id", FALSE, id),
                      FString("Val", TRUE, val) >>)

Mid(leaf) == Struct("Mid", << FStruct("Sub", FALSE, leaf), FInt("N", FALSE) >>)

Tree(name, note, inner, opt, req, items, extra, table, labels, limitNil) ==
    Struct("Config",
      << FString("Name", FALSE, name),
         FString("Note", TRUE, note),
         FStruct("Inner", FALSE, Mid(inner)),
         [name |-> "Opt", omitempty |-> TRUE, v |-> opt],
         [name |-> "Req", omitempty |-> FALSE, v |-> req],
         FSlice("Items", FALSE, items),
         FSlice("Extra", TRUE, extra),
         FMap("Table", TRUE, table),
         FMap("Labels", FALSE, labels),
         [name |-> "Limit", omitempty |-> FALSE,
          v |-> [kind |-> "Ptr", elem |-> "Other", nil |-> limitNil]],
         FInt("Count", FALSE) >>)

TableKeys == {"k1", "k2"}

Trees ==
    {Tree(nn[1], nn[2], inner, opt, req, items, extra, table, ll[1], ll[2]) :
        nn \in {<< "n", "" >>, << "", "t" >>},
        inner \in {Leaf("k", "i", "v"), Leaf("", "", "")},
        opt \in {NilPtr, PtrTo(Leaf("", "", ""))},
        req \in {NilPtr, PtrTo(Leaf("k", "i", "")), PtrTo(Leaf("", "i", ""))},
        items \in SeqsUpTo({Leaf("", "i", "v"), Leaf("k", "i", "")}, MaxElems),
        extra \in {<< >>, << Leaf("", "i", "") >>},
        table \in UNION {[D -> {Leaf("", "i", ""), Leaf("k", "", "v")}] :
                            D \in SUBSET TableKeys},
        ll \in {<< [k \in {"a"} |-> StrVal("")], FALSE >>, << NoSysctl, TRUE >>}}

\* the value of the field called name of the record st
FieldOf(st, name) == st.fields[CHOOSE i \in DOMAIN st.fields : st.fields[i].name = name].v

InitPresence ==
    /\ spec = Base
    /\ obj \in Trees
    /\ hostCheck = FALSE
    /\ fs = GoodFs
    /\ order \in Perms(DOMAIN FieldOf(obj, "Table").vals)
    /\ pc = "call"
    /\ started = << >>
    /\ diag = << >>
    /\ warns = << >>
    /\ ret = None
    /\ prev = NoRun

NextPresence == CallCheckMandatory

SpecPresence == InitPresence /\ [][NextPresence]_vars

-----------------------------------------------------------------------------
(* Properties of the presence walker, stated against the fields of the     *)
(* tree: every field with its full path from the root, the record type     *)
(* that holds it, and whether it is absent or empty.                       *)

IsEmptyValue(v) ==
    CASE v.kind = "Ptr" -> v.nil
      [] v.kind = "String" -> v.len = 0
      [] v.kind = "Slice" -> v.nil \/ Len(v.elems) = 0
      [] v.kind = "Map" -> v.nil \/ DOMAIN v.vals = {}
      [] OTHER -> FALSE

RECURSIVE FieldsIn(_, _)
\* the fields of the record st at path, and of every record below it
FieldsIn(st, path) ==
    UNION {
        LET f == st.fields[i]
            fp == path \o "." \o f.name
            here == {[path |-> fp, parent |-> st.name, field |-> f.name,
                      optional |-> f.omitempty, empty |-> IsEmptyValue(f.v),
                      structPtr |-> f.v.kind = "Ptr" /\ f.v.elem = "Struct"]}
        IN  CASE f.v.kind = "Struct" -> FieldsIn(f.v, fp)
              [] f.v.kind = "Ptr" ->
                    IF f.v.elem = "Struct" /\ ~f.v.nil
                    THEN here \cup FieldsIn(f.v.v, fp) ELSE here
              [] f.v.kind = "Slice" ->
                    here \cup UNION {IF f.v.elems[j].kind = "Struct"
                                     THEN FieldsIn(f.v.elems[j],
                                                   fp \o "[" \o ToString(j) \o "]")
                                     ELSE {} : j \in DOMAIN f.v.elems}
              [] f.v.kind = "Map" ->
                    here \cup UNION {IF f.v.vals[k].kind = "Struct"
                                     THEN FieldsIn(f.v.vals[k], fp \o "[" \o k \o "]")
                                     ELSE {} : k \in DOMAIN f.v.vals}
              [] OTHER -> here
        : i \in DOMAIN st.fields}

\* the required fields of obj that are absent or empty
RequiredEmpty == {x \in FieldsIn(obj, obj.name) : ~x.optional /\ x.empty}

\* the optional fields of obj that are absent or empty
OptionalEmpty == {x \in FieldsIn(obj, obj.name) : x.optional /\ x.empty}

\* the message the walker writes for a field, naming the record type holding it
LabelMsg(x) ==
    IF x.structPtr THEN PtrMsg(x.parent, x.field) ELSE UnitMsg(x.parent, x.field)

\* the message that would name the field by its full path
FullPathMsgs(x) ==
    {"'" \o x.path \o "' should not be empty.", "'" \o x.path \o "' should not be empty"}

Count(msgs, m) == Cardinality({i \in DOMAIN msgs : msgs[i] = m})

\* C3 as claimed: every required field that is absent or empty has an entry
\* naming its full path, and the result is invalid.
C3_FullPathNamed ==
    pc = "returned" =>
        \A V \in {RequiredEmpty} :
            /\ V # {} => ~ret.valid
            /\ \A x \in V : \E i \in DOMAIN ret.msgs : ret.msgs[i] \in FullPathMsgs(x)

\* C3 amended: the message list has exactly one entry per required field that
\* is absent or empty, at any depth, each naming the record type that holds
\* the field and the field's name; the result is invalid iff there is one.
C3_OneEntryPerViolation ==
    pc = "returned" =>
        \A V \in {RequiredEmpty} :
            /\ ret.valid <=> V = {}
            /\ Len(ret.msgs) = Cardinality(V)
            /\ \A x \in V :
                  Count(ret.msgs, LabelMsg(x)) =
                      Cardinality({y \in V : LabelMsg(y) = LabelMsg(x)})

C3_Witness ==
    /\ pc = "returned"
    /\ ~ret.valid
    /\ \E x, y, z \in RequiredEmpty :
          /\ x.path = "Config.Name"
          /\ y.path = "Config.Items[2].Key"
          /\ z.path = "Config.Table[k2].Id"
    /\ Len(ret.msgs) >= 5

\* C4: no message refers to a field that may be omitted and is absent or
\* empty, and a tree whose absent fields are all optional is valid with no
\* message.
C4_OptionalNeverReported ==
    pc = "returned" =>
        /\ \A x \in OptionalEmpty :
              \A i \in DOMAIN ret.msgs :
                  ret.msgs[i] \notin {UnitMsg(x.parent, x.field), PtrMsg(x.parent, x.field)}
                                     \cup FullPathMsgs(x)
        /\ RequiredEmpty = {} => ret.valid /\ ret.msgs = << >>

C4_Witness ==
    /\ pc = "returned"
    /\ ret.valid
    /\ ret.msgs = << >>
    /\ \E x, y, z \in OptionalEmpty :
          /\ x.path = "Config.Opt"
          /\ y.path = "Config.Table"
          /\ z.path = "Config.Items[1].Val"


-----------------------------------------------------------------------------
(* Properties of single checks, read off the run: the check at position n  *)
(* of bundleValidate has run once n steps were started, and it failed when *)
(* the run ended fatally right there.                                      *)

Ran(n) == Len(started) >= n

FailedAt(n) == pc = "fatal" /\ Len(started) = n

Terminated == pc \in {"done", "fatal"}

\* C5: two runs on the same configuration, flag and filesystem state end with
\* the same verdict and the same diagnostics and advisories, in the same order.
C5_Deterministic ==
    (prev # NoRun /\ Terminated /\ fs = prev.fs) =>
        /\ pc = prev.pc
        /\ diag = prev.diag
        /\ warns = prev.warns

\* the KEY of an entry as the claim reads it: the text before the first "="
ClaimedEnvValid(env) ==
    /\ ContainsChar(env, "=")
    /\ LET key == FirstItem(env, "=")
       IN  /\ Len(key) > 0
           /\ \A i \in 1..Len(key) :
                 IsLetter(Char(key, i)) \/ IsDigit(Char(key, i)) \/ Char(key, i) = "_"

StartsWithDigit(env) == Len(env) > 0 /\ IsDigit(Char(env, 1))

DigitAdvisory(env) ==
    "Env " \o env \o ": variable name beginning with digit is not recommended."

\* C6: an environment entry, of the process or of a hook, is accepted iff it
\* has a "=" and a non-empty KEY of letters, digits and underscores; an
\* accepted entry whose KEY starts with a digit is flagged by an advisory.
C6_EnvRule ==
    /\ Ran(4) =>
          /\ FailedAt(4) <=> \E i \in DOMAIN spec.Process.Env :
                                 ~ClaimedEnvValid(spec.Process.Env[i])
          /\ \A i \in DOMAIN spec.Process.Env :
                 (~FailedAt(4) /\ StartsWithDigit(spec.Process.Env[i]))
                     => DigitAdvisory(spec.Process.Env[i]) \in Range(warns)
    /\ Ran(7) =>
          /\ FailedAt(7) <=> \E h \in DOMAIN spec.Hooks.Prestart :
                                 \E i \in DOMAIN spec.Hooks.Prestart[h].Env :
                                     ~ClaimedEnvValid(spec.Hooks.Prestart[h].Env[i])
          /\ \A h \in DOMAIN spec.Hooks.Prestart :
                 \A i \in DOMAIN spec.Hooks.Prestart[h].Env :
                     (~FailedAt(7) /\ StartsWithDigit(spec.Hooks.Prestart[h].Env[i]))
                         => DigitAdvisory(spec.Hooks.Prestart[h].Env[i]) \in Range(warns)

ClaimedDeviceValid(d) ==
    \/ d.Type \in {"b", "c"}
    \/ d.Type = "u" /\ d.Major > 0 /\ d.Minor > 0
    \/ d.Type = "p" /\ d.Major = 0 /\ d.Minor = 0

\* C7: a device is valid iff its kind is b or c, or u with Major > 0 and
\* Minor > 0, or p with Major = 0 and Minor = 0; the Linux check fails on the
\* first invalid device.
C7_DeviceRule ==
    (Ran(6) /\ spec.Linux.Namespaces = << >> /\ DOMAIN spec.Linux.Sysctl = {}
            /\ spec.Hostname = "") =>
        \A bad \in {{i \in DOMAIN spec.Linux.Devices :
                        ~ClaimedDeviceValid(spec.Linux.Devices[i])}} :
            /\ FailedAt(6) <=> bad # {}
            /\ FailedAt(6) =>
                  diag = << "device " \o ToString(spec.Linux.Devices[Min(bad)])
                            \o " is invalid." >>

\* a namespace of kind k is declared with an empty path
NewNamespace(k) ==
    \E i \in DOMAIN spec.Linux.Namespaces :
        spec.Linux.Namespaces[i].Type = k /\ spec.Linux.Namespaces[i].Path = ""

NetKeys == {k \in DOMAIN spec.Linux.Sysctl : HasPrefix(k, "net.")}

MqueueKeys == {k \in DOMAIN spec.Linux.Sysctl : HasPrefix(k, "fs.mqueue.")}

NetMsgs ==
    {"Sysctl " \o k \o " requires a new Network namespace to be specified as well" :
        k \in NetKeys}

MqueueMsgs ==
    {"Sysctl " \o k
     \o " requires a new IPC namespace and Mount namespace to be specified as well" :
        k \in MqueueKeys}

UtsMsg == "On Linux, hostname requires a new UTS namespace to be specified as well"

\* C8: with valid namespace kinds, the Linux check fails when a net. key lacks
\* an empty-path Network namespace, when an fs.mqueue. key lacks an empty-path
\* Mount or IPC namespace, and when a hostname on linux lacks an empty-path UTS
\* namespace; a namespace with a path satisfies none of these, and with the
\* required empty-path namespaces declared the corresponding failure is gone.
C8_NamespacePrerequisites ==
    (Ran(6) /\ \A i \in DOMAIN spec.Linux.Namespaces :
                   namespaceValid(spec.Linux.Namespaces[i])) =>
        /\ (NetKeys # {} /\ ~NewNamespace("network")) => FailedAt(6)
        /\ (MqueueKeys # {} /\ ~(NewNamespace("mount") /\ NewNamespace("ipc")))
              => FailedAt(6)
        /\ (spec.Platform.OS = "linux" /\ spec.Hostname # "" /\ ~NewNamespace("uts"))
              => FailedAt(6)
        /\ FailedAt(6) =>
              /\ diag[1] \in NetMsgs => ~NewNamespace("network")
              /\ diag[1] \in MqueueMsgs => ~(NewNamespace("mount") /\ NewNamespace("ipc"))
              /\ diag[1] = UtsMsg => (~NewNamespace("uts") /\ spec.Platform.OS = "linux"
                                      /\ spec.Hostname # "")
        /\ (/\ NetKeys # {} => NewNamespace("network")
            /\ MqueueKeys # {} => (NewNamespace("mount") /\ NewNamespace("ipc"))
            /\ (spec.Platform.OS = "linux" /\ spec.Hostname # "") => NewNamespace("uts")
            /\ spec.Linux.Devices = << >>)
              => ~FailedAt(6)

C8_Witness ==
    /\ FailedAt(6)
    /\ diag[1] \in MqueueMsgs
    /\ NewNamespace("mount")
    /\ \E i \in DOMAIN spec.Linux.Namespaces :
           spec.Linux.Namespaces[i] = Namespace("ipc", "/ns")

OtherOSAdvisory == spec.Platform.OS \o " is not supported to check mount type"

NoHostAdvisory == "Checking linux mount types without --host-specific is not supported yet"

\* the types the lines of the host's /proc/filesystems register
HostTypes == {LineType(fs.procLines[i]) : i \in DOMAIN fs.procLines}

MountTypes == {spec.Mounts[i].Type : i \in DOMAIN spec.Mounts}

C10_AsClaimed ==
    (prev # NoRun /\ Terminated /\ ~hostCheck /\ order = prev.order) =>
        /\ pc = prev.pc
        /\ diag = prev.diag

\* C10 amended: with host-specific off, two runs on the same configuration,
\* visiting the sysctl keys in the same order, end with the same verdict,
\* diagnostic and advisories for any two filesystem states that agree on the
\* existence of the profile file; the profile probe is made whatever the flag.
C10_HostChecksGated ==
    (prev # NoRun /\ Terminated /\ ~hostCheck /\ order = prev.order
        /\ ProfileExists(fs, spec.Process.ApparmorProfile)
               = ProfileExists(prev.fs, spec.Process.ApparmorProfile)) =>
        /\ pc = prev.pc
        /\ diag = prev.diag
        /\ warns = prev.warns

C10_Witness ==
    /\ prev # NoRun
    /\ pc = "done"
    /\ ~hostCheck
    /\ spec.Process.ApparmorProfile # ""
    /\ spec.Hooks.Prestart # << >>
    /\ spec.Mounts # << >>
    /\ prev.fs.exists = {} /\ fs.exec # {}
    /\ prev.fs.procOpen /\ ~fs.procOpen

\* a rule of the Linux check that the code tests before the seccomp policy is
\* broken: a mapping cap, a namespace kind, a sysctl or hostname dependency,
\* or the validity of a device
EarlierRuleViolated ==
    \/ Len(spec.Linux.UIDMappings) > 5
    \/ Len(spec.Linux.GIDMappings) > 5
    \/ \E i \in DOMAIN spec.Linux.Namespaces : ~namespaceValid(spec.Linux.Namespaces[i])
    \/ NetKeys # {} /\ ~NewNamespace("network")
    \/ MqueueKeys # {} /\ ~(NewNamespace("mount") /\ NewNamespace("ipc"))
    \/ spec.Platform.OS = "linux" /\ spec.Hostname # "" /\ ~NewNamespace("uts")
    \/ \E i \in DOMAIN spec.Linux.Devices : ~ClaimedDeviceValid(spec.Linux.Devices[i])

RootfsViolated ==
    spec.Linux.RootfsPropagation \notin
        {"", "private", "rprivate", "slave", "rslave", "shared", "rshared"}

SeccompInvalid == ~spec.Linux.Seccomp.nil /\ ~checkSeccomp(spec.Linux.Seccomp).ok

SeccompMsg == checkSeccomp(spec.Linux.Seccomp).msg

\* C11 as claimed: when a rule of the Linux check, RootfsPropagation included,
\* is broken and the seccomp policy is invalid too, the single diagnostic is
\* the one of the Linux rule, never the one of the seccomp check.
C11_AsClaimed ==
    (Ran(6) /\ SeccompInvalid /\ (EarlierRuleViolated \/ RootfsViolated)) =>
        /\ FailedAt(6)
        /\ Len(diag) = 1
        /\ diag[1] # SeccompMsg

\* C11 amended: the seccomp check runs after the mapping caps, the namespace
\* kinds, the sysctl and hostname dependencies and the devices, and before
\* the RootfsPropagation rule: with an invalid seccomp policy the single
\* diagnostic is the one of a Linux rule when one of those earlier rules is
\* broken, and the seccomp one otherwise, an invalid RootfsPropagation
\* notwithstanding.
C11_SeccompBeforeRootfs ==
    (Ran(6) /\ SeccompInvalid) =>
        /\ FailedAt(6)
        /\ Len(diag) = 1
        /\ EarlierRuleViolated => diag[1] # SeccompMsg
        /\ ~EarlierRuleViolated => diag[1] = SeccompMsg

C11_Witness ==
    /\ FailedAt(6)
    /\ SeccompInvalid
    /\ RootfsViolated
    /\ ~EarlierRuleViolated
    /\ diag = << SeccompMsg >>

\* for each of the four kinds, whether some entry of that kind has an empty path
DisjunctionFlags ==
    [uts |-> NewNamespace("uts"), ipc |-> NewNamespace("ipc"),
     net |-> NewNamespace("network"), mount |-> NewNamespace("mount")]

\* the configuration of the run with its namespace entries in the order p
Reordered(p) ==
    [spec EXCEPT !.Linux.Namespaces =
        [i \in DOMAIN spec.Linux.Namespaces |-> spec.Linux.Namespaces[p[i]]]]

SomeKindTwice ==
    \E i, j \in DOMAIN spec.Linux.Namespaces :
        i < j /\ spec.Linux.Namespaces[i].Type = spec.Linux.Namespaces[j].Type

\* C12: with valid namespace kinds, duplicates included, the flag of each of
\* UTS, IPC, Mount and Network after the namespace loop is true iff some entry
\* of that kind has an empty path, and the verdict and diagnostic of the Linux
\* check are the same for every order of the namespace entries.
C12_FlagsAreDisjunction ==
    (Ran(6) /\ \A i \in DOMAIN spec.Linux.Namespaces :
                   namespaceValid(spec.Linux.Namespaces[i])) =>
        /\ NsFlags(spec.Linux.Namespaces, Len(spec.Linux.Namespaces)) = DisjunctionFlags
        /\ \A p \in Perms(DOMAIN spec.Linux.Namespaces) :
               \A r \in {checkLinux(Reordered(p), order)} :
                   /\ FailedAt(6) <=> ~r.ok
                   /\ FailedAt(6) => diag = << r.msg >>

C12_Witness ==
    /\ Ran(6)
    /\ ~FailedAt(6)
    /\ NetKeys # {}
    /\ spec.Linux.Namespaces = << Namespace("network", ""), Namespace("network", "/ns") >>

\* a rule of the Linux check that does not look at Platform.OS is broken
OSIndependentViolation ==
    \/ Len(spec.Linux.UIDMappings) > 5
    \/ Len(spec.Linux.GIDMappings) > 5
    \/ \E i \in DOMAIN spec.Linux.Namespaces : ~namespaceValid(spec.Linux.Namespaces[i])
    \/ NetKeys # {} /\ ~NewNamespace("network")
    \/ MqueueKeys # {} /\ ~(NewNamespace("mount") /\ NewNamespace("ipc"))
    \/ \E i \in DOMAIN spec.Linux.Devices : ~ClaimedDeviceValid(spec.Linux.Devices[i])
    \/ RootfsViolated
    \/ SeccompInvalid

HostnameViolation ==
    spec.Platform.OS = "linux" /\ spec.Hostname # "" /\ ~NewNamespace("uts")

====
